---- MODULE Spec2Model ----
(***************************************************************************)
(* Model of backend/app.py: the chatbot bridge.                            *)
(*                                                                         *)
(*   - format_text_response: the ordered chain of twelve re.sub / strip    *)
(*     rewrites, computed character by character with the matching rules  *)
(*     of Python's re module (leftmost match, greedy and lazy quantifiers, *)
(*     non-overlapping substitution).                                      *)
(*   - chat: the POST /chat handler, from request validation through the   *)
(*     upstream call to the classified response.                           *)
(*   - get_config: the GET /config handler, on two deployments side by     *)
(*     side so that their responses can be compared.                       *)
(*                                                                         *)
(* A text is a sequence of one-character strings.                          *)
(***************************************************************************)
EXTENDS Integers, Sequences, FiniteSets, TLC

(***************************************************************************)
(* Bounds of the model.                                                    *)
(***************************************************************************)
\* Inputs of the formatter are concatenations of at most MaxFrags fragments.
MaxFrags == 3

(***************************************************************************)
(* Character classes of the regular expressions.                           *)
(***************************************************************************)
\* \d
Digits == {"0", "1", "2", "3", "4", "5", "6", "7", "8", "9"}

\* \s, and the characters str.strip() removes
Whitespace == {" ", "\t", "\n", "\r", "\f"}

\* [A-Z]
Uppercase == {"A", "B", "C", "D", "E", "F", "G", "H", "I", "J", "K", "L", "M",
              "N", "O", "P", "Q", "R", "S", "T", "U", "V", "W", "X", "Y", "Z"}

\* The character at position i of t, or the empty string outside t.
At(t, i) == IF i >= 1 /\ i <= Len(t) THEN t[i] ELSE ""

\* The literal p occurs in t at position i.
HasAt(t, i, p) == /\ i >= 1
                  /\ i + Len(p) - 1 <= Len(t)
                  /\ \A k \in 1..Len(p) : t[i + k - 1] = p[k]

\* The literal p occurs somewhere in t.
Contains(t, p) == \E i \in 1..Len(t) : HasAt(t, i, p)

\* First position >= i of t that is not in the class cls (Len(t)+1 if none):
\* where a greedy cls+ or cls* that starts at i stops.
RECURSIVE RunEnd(_, _, _)
RunEnd(t, i, cls) == IF i <= Len(t) /\ t[i] \in cls THEN RunEnd(t, i + 1, cls) ELSE i

(***************************************************************************)
(* Rule 1 (line 31): re.sub(r'\*\*(.*?)\*\*', r'\1', text)                 *)
(***************************************************************************)
\* The lazy (.*?) from position j: the first j' >= j where "**" occurs with no
\* newline in between ('.' does not match a newline); 0 if there is none.
RECURSIVE CloseBold(_, _)
CloseBold(t, j) == IF j + 1 > Len(t) THEN 0
                   ELSE IF t[j] = "*" /\ t[j + 1] = "*" THEN j
                   ELSE IF t[j] = "\n" THEN 0
                   ELSE CloseBold(t, j + 1)

\* Position of the closing "**" of a match that starts at i, or 0.
BoldMatch(t, i) == IF HasAt(t, i, <<"*", "*">>) THEN CloseBold(t, i + 2) ELSE 0

RECURSIVE StripBoldFrom(_, _)
StripBoldFrom(t, i) ==
    IF i > Len(t) THEN <<>>
    ELSE LET j == BoldMatch(t, i)
         IN  IF j > 0 THEN SubSeq(t, i + 2, j - 1) \o StripBoldFrom(t, j + 2)
             ELSE <<t[i]>> \o StripBoldFrom(t, i + 1)

StripBold(t) == StripBoldFrom(t, 1)

(***************************************************************************)
(* Rule 2 (line 34): two newlines before a numbered marker followed by     *)
(* two asterisks; the pattern is a group of \d+ \. \s \* \*, replaced by    *)
(* \n\n and the group.                                                     *)
(***************************************************************************)
\* End (exclusive) of a match of \d+\.\s starting at i, or 0.
MarkerEnd(t, i) ==
    IF At(t, i) \in Digits
    THEN LET k == RunEnd(t, i, Digits)
         IN  IF At(t, k) = "." /\ At(t, k + 1) \in Whitespace THEN k + 2 ELSE 0
    ELSE 0

BoldMarkerEnd(t, i) ==
    LET e == MarkerEnd(t, i)
    IN  IF e > 0 /\ HasAt(t, e, <<"*", "*">>) THEN e + 2 ELSE 0

RECURSIVE BreakBeforeBoldMarkerFrom(_, _)
BreakBeforeBoldMarkerFrom(t, i) ==
    IF i > Len(t) THEN <<>>
    ELSE LET e == BoldMarkerEnd(t, i)
         IN  IF e > 0
             THEN <<"\n", "\n">> \o SubSeq(t, i, e - 1) \o BreakBeforeBoldMarkerFrom(t, e)
             ELSE <<t[i]>> \o BreakBeforeBoldMarkerFrom(t, i + 1)

BreakBeforeBoldMarker(t) == BreakBeforeBoldMarkerFrom(t, 1)

(***************************************************************************)
(* Rule 3 (line 35): re.sub(r'(\d+\.\s)', r'\n\n\1', text)                 *)
(***************************************************************************)
RECURSIVE BreakBeforeMarkerFrom(_, _)
BreakBeforeMarkerFrom(t, i) ==
    IF i > Len(t) THEN <<>>
    ELSE LET e == MarkerEnd(t, i)
         IN  IF e > 0
             THEN <<"\n", "\n">> \o SubSeq(t, i, e - 1) \o BreakBeforeMarkerFrom(t, e)
             ELSE <<t[i]>> \o BreakBeforeMarkerFrom(t, i + 1)

BreakBeforeMarker(t) == BreakBeforeMarkerFrom(t, 1)

(***************************************************************************)
(* Rule 4 (line 38): re.sub(r'(\s+-\s)', r'\n   - ', text)                 *)
(***************************************************************************)
\* End (exclusive) of a match of \s+-\s starting at i, or 0.  The dash is not
\* whitespace, so the greedy \s+ has to take the whole whitespace run.
SubBulletEnd(t, i) ==
    IF At(t, i) \in Whitespace
    THEN LET k == RunEnd(t, i, Whitespace)
         IN  IF At(t, k) = "-" /\ At(t, k + 1) \in Whitespace THEN k + 2 ELSE 0
    ELSE 0

RECURSIVE SubBulletsFrom(_, _)
SubBulletsFrom(t, i) ==
    IF i > Len(t) THEN <<>>
    ELSE LET e == SubBulletEnd(t, i)
         IN  IF e > 0
             THEN <<"\n", " ", " ", " ", "-", " ">> \o SubBulletsFrom(t, e)
             ELSE <<t[i]>> \o SubBulletsFrom(t, i + 1)

SubBullets(t) == SubBulletsFrom(t, 1)

(***************************************************************************)
(* Rule 5 (line 41): re.sub(r'(\s-\s)', r'\n- ', text)                     *)
(***************************************************************************)
MainBulletEnd(t, i) ==
    IF At(t, i) \in Whitespace /\ At(t, i + 1) = "-" /\ At(t, i + 2) \in Whitespace
    THEN i + 3 ELSE 0

RECURSIVE MainBulletsFrom(_, _)
MainBulletsFrom(t, i) ==
    IF i > Len(t) THEN <<>>
    ELSE LET e == MainBulletEnd(t, i)
         IN  IF e > 0
             THEN <<"\n", "-", " ">> \o MainBulletsFrom(t, e)
             ELSE <<t[i]>> \o MainBulletsFrom(t, i + 1)

MainBullets(t) == MainBulletsFrom(t, 1)

(***************************************************************************)
(* Rules 6 and 7 (lines 44, 47): re.sub(r'(- For\s)', r'\n- For ', text)   *)
(*                               re.sub(r'(- In\s)', r'\n- In ', text)     *)
(***************************************************************************)
DashFor == <<"-", " ", "F", "o", "r">>
DashIn == <<"-", " ", "I", "n">>

\* re.sub of (<word>\s) by \n<word> followed by one space.
RECURSIVE BreakBeforeWordFrom(_, _, _)
BreakBeforeWordFrom(t, i, word) ==
    IF i > Len(t) THEN <<>>
    ELSE IF HasAt(t, i, word) /\ At(t, i + Len(word)) \in Whitespace
         THEN <<"\n">> \o word \o <<" ">> \o BreakBeforeWordFrom(t, i + Len(word) + 1, word)
         ELSE <<t[i]>> \o BreakBeforeWordFrom(t, i + 1, word)

ForBullets(t) == BreakBeforeWordFrom(t, 1, DashFor)
InBullets(t) == BreakBeforeWordFrom(t, 1, DashIn)

(***************************************************************************)
(* Rule 8 (line 50): re.sub(r'(Overview of|Feasibility and|Benefits for|   *)
(*     Challenges and|Regulatory|Market Insights)', r'\n\1', text)         *)
(***************************************************************************)
SectionPhrases ==
    << <<"O", "v", "e", "r", "v", "i", "e", "w", " ", "o", "f">>,
       <<"F", "e", "a", "s", "i", "b", "i", "l", "i", "t", "y", " ", "a", "n", "d">>,
       <<"B", "e", "n", "e", "f", "i", "t", "s", " ", "f", "o", "r">>,
       <<"C", "h", "a", "l", "l", "e", "n", "g", "e", "s", " ", "a", "n", "d">>,
       <<"R", "e", "g", "u", "l", "a", "t", "o", "r", "y">>,
       <<"M", "a", "r", "k", "e", "t", " ", "I", "n", "s", "i", "g", "h", "t", "s">> >>

\* Length of the first alternative that matches at i, or 0.
SectionLen(t, i) ==
    LET hits == {n \in 1..Len(SectionPhrases) : HasAt(t, i, SectionPhrases[n])}
    IN  IF hits = {} THEN 0
        ELSE Len(SectionPhrases[CHOOSE n \in hits : \A m \in hits : n <= m])

RECURSIVE SectionBreaksFrom(_, _)
SectionBreaksFrom(t, i) ==
    IF i > Len(t) THEN <<>>
    ELSE LET n == SectionLen(t, i)
         IN  IF n > 0
             THEN <<"\n">> \o SubSeq(t, i, i + n - 1) \o SectionBreaksFrom(t, i + n)
             ELSE <<t[i]>> \o SectionBreaksFrom(t, i + 1)

SectionBreaks(t) == SectionBreaksFrom(t, 1)

(***************************************************************************)
(* Rule 9 (line 53): re.sub(r'(:)(\s*-)', r':\n\2', text)                  *)
(***************************************************************************)
\* ColonDash with the dash of the pattern made optional.
ColonDashOptional(t, i) ==
    IF At(t, i) = ":"
    THEN LET k == RunEnd(t, i + 1, Whitespace)
         IN  IF At(t, k) = "-" THEN k ELSE k - 1
    ELSE 0

\* ColonDash without the \s* of the pattern.
ColonDashAdjacent(t, i) == IF At(t, i) = ":" /\ At(t, i + 1) = "-" THEN i + 1 ELSE 0

\* Position of the dash of a match of :\s*- starting at i, or 0.
ColonDash(t, i) ==
    IF At(t, i) = ":"
    THEN LET k == RunEnd(t, i + 1, Whitespace)
         IN  IF At(t, k) = "-" THEN k ELSE 0
    ELSE 0

RECURSIVE ColonBreaksFrom(_, _)
ColonBreaksFrom(t, i) ==
    IF i > Len(t) THEN <<>>
    ELSE LET k == ColonDash(t, i)
         IN  IF k > 0
             THEN <<":", "\n">> \o SubSeq(t, i + 1, k) \o ColonBreaksFrom(t, k + 1)
             ELSE <<t[i]>> \o ColonBreaksFrom(t, i + 1)

ColonBreaks(t) == ColonBreaksFrom(t, 1)

(***************************************************************************)
(* Rule 10 (line 56): re.sub(r'\n{3,}', '\n\n', text)                      *)
(***************************************************************************)
RECURSIVE CollapseFrom(_, _)
CollapseFrom(t, i) ==
    IF i > Len(t) THEN <<>>
    ELSE LET k == RunEnd(t, i, {"\n"})
         IN  IF k - i >= 3
             THEN <<"\n", "\n">> \o CollapseFrom(t, k)
             ELSE <<t[i]>> \o CollapseFrom(t, i + 1)

CollapseNewlines(t) == CollapseFrom(t, 1)

(***************************************************************************)
(* Rule 11 (line 59): text.strip()                                         *)
(***************************************************************************)
\* Last position <= i of t that is not whitespace (0 if none).
RECURSIVE LastNonSpace(_, _)
LastNonSpace(t, i) == IF i >= 1 /\ t[i] \in Whitespace THEN LastNonSpace(t, i - 1) ELSE i

Strip(t) == SubSeq(t, RunEnd(t, 1, Whitespace), LastNonSpace(t, Len(t)))

(***************************************************************************)
(* Rule 12 (line 62): re.sub(r'(\d+\.\s)([A-Z])', r'\1\n\2', text)         *)
(***************************************************************************)
RECURSIVE SplitMarkerFrom(_, _)
SplitMarkerFrom(t, i) ==
    IF i > Len(t) THEN <<>>
    ELSE LET e == MarkerEnd(t, i)
         IN  IF e > 0 /\ At(t, e) \in Uppercase
             THEN SubSeq(t, i, e - 1) \o <<"\n", t[e]>> \o SplitMarkerFrom(t, e + 1)
             ELSE <<t[i]>> \o SplitMarkerFrom(t, i + 1)

\* SplitMarker with the newline of the replacement put before the marker.
RECURSIVE SplitMarkerLeadingFrom(_, _)
SplitMarkerLeadingFrom(t, i) ==
    IF i > Len(t) THEN <<>>
    ELSE LET e == MarkerEnd(t, i)
         IN  IF e > 0 /\ At(t, e) \in Uppercase
             THEN <<"\n">> \o SubSeq(t, i, e) \o SplitMarkerLeadingFrom(t, e + 1)
             ELSE <<t[i]>> \o SplitMarkerLeadingFrom(t, i + 1)

SplitMarkerLeading(t) == SplitMarkerLeadingFrom(t, 1)

SplitMarker(t) == SplitMarkerFrom(t, 1)

(***************************************************************************)
(* format_text_response (lines 26-64): the rules in the order of the code. *)
(* Pipeline(text)[n] is the value of `text` after rule n.                  *)
(***************************************************************************)
Pipeline(text) ==
    LET r1  == StripBold(text)
        r2  == BreakBeforeBoldMarker(r1)
        r3  == BreakBeforeMarker(r2)
        r4  == SubBullets(r3)
        r5  == MainBullets(r4)
        r6  == ForBullets(r5)
        r7  == InBullets(r6)
        r8  == SectionBreaks(r7)
        r9  == ColonBreaks(r8)
        r10 == CollapseNewlines(r9)
        r11 == Strip(r10)
        r12 == SplitMarker(r11)
    IN  <<r1, r2, r3, r4, r5, r6, r7, r8, r9, r10, r11, r12>>

format_text_response(text) == Pipeline(text)[12]

(***************************************************************************)
(* Inputs of the formatter: the examples of the specification and every    *)
(* concatenation of at most MaxFrags fragments.                            *)
(***************************************************************************)
Fragments ==
    { <<"a">>, <<"A">>, <<" ">>, <<"\n">>, <<"-">>, <<":">>, <<"1">>, <<".">>,
      <<"*", "*">>,
      <<"1", ".", " ">>,
      <<"-", " ", "F", "o", "r">>,
      <<"-", " ", "I", "n">>,
      <<"R", "e", "g", "u", "l", "a", "t", "o", "r", "y">>,
      <<" ", " ", " ", "-", " ">>,
      <<"\n", "\n", "\n">> }

RECURSIVE Concats(_)
Concats(n) == IF n = 0 THEN {<<>>}
              ELSE LET shorter == Concats(n - 1)
                   IN  shorter \cup {s \o f : s \in shorter, f \in Fragments}

Examples ==
    { <<"T", "e", "x", "t", ":", "\n", " ", " ", " ", "-", " ", "i", "t", "e", "m">>,
      <<"1", ".", " ", "*", "*", "F", "i", "r", "s", "t", "*", "*", "\n",
        "2", ".", " ", "S", "e", "c", "o", "n", "d">>,
      <<"*", "*", "H", "e", "l", "l", "o", "*", "*", " ", "w", "o", "r", "l", "d">>,
      <<"S", "e", "e", " ", "O", "v", "e", "r", "v", "i", "e", "w", " ", "o", "f",
        " ", "r", "i", "s", "k", "s">> }

Inputs == Examples \cup Concats(MaxFrags)

(***************************************************************************)
(* JSON values, as request.get_json() and response.json() deliver them,    *)
(* and the Python operations the handler applies to them.                  *)
(***************************************************************************)
JNull == [t |-> "null"]
JBool(b) == [t |-> "bool", b |-> b]
JNum(n) == [t |-> "num", n |-> n]
JStr(s) == [t |-> "str", s |-> s]
JList(items) == [t |-> "list", items |-> items]
\* members: a sequence of <<key, value>> pairs with distinct keys
JObj(members) == [t |-> "obj", members |-> members]

\* bool(v)
Truthy(v) ==
    CASE v.t = "null" -> FALSE
      [] v.t = "bool" -> v.b
      [] v.t = "num"  -> v.n # 0
      [] v.t = "str"  -> v.s # <<>>
      [] v.t = "list" -> v.items # <<>>
      [] v.t = "obj"  -> v.members # <<>>

\* key in v: "yes", "no", or "TypeError" when v is not a container
PyIn(key, v) ==
    CASE v.t = "obj"  -> IF \E n \in 1..Len(v.members) : v.members[n][1] = key
                         THEN "yes" ELSE "no"
      [] v.t = "list" -> IF \E n \in 1..Len(v.items) : v.items[n] = JStr(key)
                         THEN "yes" ELSE "no"
      [] v.t = "str"  -> IF Contains(v.s, key) THEN "yes" ELSE "no"
      [] OTHER        -> "TypeError"

\* v[key] for a string key: only a dict can be indexed by a string
CanIndex(v) == v.t = "obj"
PyGetItem(v, key) ==
    v.members[CHOOSE n \in 1..Len(v.members) : v.members[n][1] = key][2]

\* str(n) for an integer n
RECURSIVE NatDigits(_)
NatDigits(n) ==
    LET d == <<"0", "1", "2", "3", "4", "5", "6", "7", "8", "9">>[(n % 10) + 1]
    IN  IF n < 10 THEN <<d>> ELSE NatDigits(n \div 10) \o <<d>>

IntStr(n) == IF n < 0 THEN <<"-">> \o NatDigits(-n) ELSE NatDigits(n)

\* repr(s) for a string s
ReprChar(c, quote) ==
    CASE c = "\\"  -> <<"\\", "\\">>
      [] c = "\n"  -> <<"\\", "n">>
      [] c = "\t"  -> <<"\\", "t">>
      [] c = "\r"  -> <<"\\", "r">>
      [] c = "\f"  -> <<"\\", "x", "0", "c">>
      [] c = quote -> <<"\\", c>>
      [] OTHER     -> <<c>>

RECURSIVE ReprChars(_, _, _)
ReprChars(s, n, quote) ==
    IF n > Len(s) THEN <<>> ELSE ReprChar(s[n], quote) \o ReprChars(s, n + 1, quote)

StrRepr(s) ==
    LET quote == IF Contains(s, <<"'">>) /\ ~Contains(s, <<"\"">>) THEN "\"" ELSE "'"
    IN  <<quote>> \o ReprChars(s, 1, quote) \o <<quote>>

\* repr(v)
RECURSIVE PyRepr(_)
RECURSIVE ReprItems(_, _)
RECURSIVE ReprMembers(_, _)
ReprItems(items, n) ==
    IF n > Len(items) THEN <<>>
    ELSE (IF n > 1 THEN <<",", " ">> ELSE <<>>) \o PyRepr(items[n]) \o ReprItems(items, n + 1)

ReprMembers(members, n) ==
    IF n > Len(members) THEN <<>>
    ELSE (IF n > 1 THEN <<",", " ">> ELSE <<>>)
         \o StrRepr(members[n][1]) \o <<":", " ">> \o PyRepr(members[n][2])
         \o ReprMembers(members, n + 1)

PyRepr(v) ==
    CASE v.t = "null" -> <<"N", "o", "n", "e">>
      [] v.t = "bool" -> IF v.b THEN <<"T", "r", "u", "e">> ELSE <<"F", "a", "l", "s", "e">>
      [] v.t = "num"  -> IntStr(v.n)
      [] v.t = "str"  -> StrRepr(v.s)
      [] v.t = "list" -> <<"[">> \o ReprItems(v.items, 1) \o <<"]">>
      [] v.t = "obj"  -> <<"{">> \o ReprMembers(v.members, 1) \o <<"}">>

\* str(v)
PyStr(v) == IF v.t = "str" THEN v.s ELSE PyRepr(v)

(***************************************************************************)
(* Configuration (lines 18-24), read once when a deployment starts.        *)
(***************************************************************************)
Deployments == {1, 2}

\* os.getenv of a variable that is not set
Unset == [set |-> FALSE, value |-> ""]
EnvValue(v) == [set |-> TRUE, value |-> v]

\* bool(os.getenv(...)): None and the empty string are falsy
Configured(e) == e.set /\ e.value # ""

\* the value as an f-string renders it
Rendered(e) == IF e.set THEN e.value ELSE "None"

ApiKeys == {Unset, EnvValue(""), EnvValue("key-1"), EnvValue("key-2")}
ChannelTokens == {Unset, EnvValue(""), EnvValue("token-1"), EnvValue("token-2")}
Environments == {"production", "development"}

Configs == [API_KEY : ApiKeys, CHANNEL_TOKEN : ChannelTokens, ENVIRONMENT : Environments]

\* no variable set: ENVIRONMENT defaults to 'production' (line 20)
DefaultConfig == [API_KEY |-> Unset, CHANNEL_TOKEN |-> Unset, ENVIRONMENT |-> "production"]

EXTERNAL_API_URL(cfg) ==
    <<"https://payload.vextapp.com/hook/AKEIS1C8PZ/catch/", Rendered(cfg.CHANNEL_TOKEN)>>

(***************************************************************************)
(* Responses of the handlers.  A JSON error payload {"error": msg} keeps   *)
(* msg as the literal part of the message and the interpolated part.       *)
(***************************************************************************)
NoResponse == [status |-> 0, kind |-> "none"]
TextResponse(status, body) == [status |-> status, kind |-> "text", body |-> body]
ErrorResponse(status, literal, detail) ==
    [status |-> status, kind |-> "error", error |-> <<literal, detail>>]
JsonResponse(status, json) == [status |-> status, kind |-> "json", json |-> json]
\* an exception that no except clause of the handler catches
Propagated(exc) == [status |-> 0, kind |-> "propagated", exc |-> exc]

(***************************************************************************)
(* get_config (lines 161-177)                                              *)
(***************************************************************************)
\* get_config without the production branch.
get_config_debug(cfg) ==
    JsonResponse(200, [environment |-> cfg.ENVIRONMENT,
                       api_key_configured |-> Configured(cfg.API_KEY),
                       channel_token_configured |-> Configured(cfg.CHANNEL_TOKEN),
                       external_url |-> EXTERNAL_API_URL(cfg)])

get_config(cfg) ==
    IF cfg.ENVIRONMENT = "production"
    THEN JsonResponse(200, [environment |-> cfg.ENVIRONMENT,
                            status |-> IF Configured(cfg.API_KEY) /\ Configured(cfg.CHANNEL_TOKEN)
                                       THEN "API keys configured"
                                       ELSE "API keys missing"])
    ELSE JsonResponse(200, [environment |-> cfg.ENVIRONMENT,
                            api_key_configured |-> Configured(cfg.API_KEY),
                            channel_token_configured |-> Configured(cfg.CHANNEL_TOKEN),
                            external_url |-> EXTERNAL_API_URL(cfg)])

(***************************************************************************)
(* Exceptions: the classes the handler can meet, each with the classes it  *)
(* is an instance of, and the except clauses of chat (lines 145-159).      *)
(***************************************************************************)
Ancestors ==
    [ Timeout          |-> {"Timeout", "RequestException", "Exception"},
      ReadTimeout      |-> {"ReadTimeout", "Timeout", "RequestException", "Exception"},
      ConnectTimeout   |-> {"ConnectTimeout", "ConnectionError", "Timeout",
                            "RequestException", "Exception"},
      ConnectionError  |-> {"ConnectionError", "RequestException", "Exception"},
      SSLError         |-> {"SSLError", "ConnectionError", "RequestException", "Exception"},
      TooManyRedirects |-> {"TooManyRedirects", "RequestException", "Exception"},
      RequestException |-> {"RequestException", "Exception"},
      BadRequest       |-> {"BadRequest", "HTTPException", "Exception"},
      TypeError        |-> {"TypeError", "Exception"},
      RuntimeError     |-> {"RuntimeError", "Exception"} ]

Raised(cls, msg) == [cls |-> cls, msg |-> msg]
IsInstance(exc, cls) == cls \in Ancestors[exc.cls]

\* The except clauses with ConnectionError tested before Timeout.
HandleExceptionConnectionFirst(exc) ==
    IF IsInstance(exc, "ConnectionError")
    THEN ErrorResponse(503, "Connection error. Please check your internet connection.", <<>>)
    ELSE IF IsInstance(exc, "Timeout")
    THEN ErrorResponse(408, "Request timed out. Please try again.", <<>>)
    ELSE IF IsInstance(exc, "RequestException")
    THEN ErrorResponse(500, "Request error: ", exc.msg)
    ELSE IF IsInstance(exc, "Exception")
    THEN ErrorResponse(500, "Internal server error: ", exc.msg)
    ELSE Propagated(exc)

\* The first except clause that matches decides the response.
HandleException(exc) ==
    IF IsInstance(exc, "Timeout")
    THEN ErrorResponse(408, "Request timed out. Please try again.", <<>>)
    ELSE IF IsInstance(exc, "ConnectionError")
    THEN ErrorResponse(503, "Connection error. Please check your internet connection.", <<>>)
    ELSE IF IsInstance(exc, "RequestException")
    THEN ErrorResponse(500, "Request error: ", exc.msg)
    ELSE IF IsInstance(exc, "Exception")
    THEN ErrorResponse(500, "Internal server error: ", exc.msg)
    ELSE Propagated(exc)

(***************************************************************************)
(* chat (lines 84-159), in its two halves: up to the upstream call, and    *)
(* from the outcome of the upstream call to the response.                  *)
(***************************************************************************)
MessageKey == <<"m", "e", "s", "s", "a", "g", "e">>
TextKey == <<"t", "e", "x", "t">>

\* timeout=30 of requests.post
UpstreamTimeout == 30

\* Lines 91-118.  The result is either the response of a request that is
\* answered without an upstream call, or the upstream call to make.
Answer(resp) == [call |-> FALSE, response |-> resp]
CallUpstream(out) == [call |-> TRUE, outbound |-> out]

chat_receive(cfg, req) ==
    IF ~req.parsed
    THEN \* request.get_json() raises on a body that is not JSON
         Answer(HandleException(Raised("BadRequest", <<"400 Bad Request">>)))
    ELSE LET data == req.data
         IN  IF ~Truthy(data)
             THEN Answer(ErrorResponse(400, "No message provided", <<>>))
             ELSE IF PyIn(MessageKey, data) = "TypeError"
             THEN Answer(HandleException(Raised("TypeError", <<"argument is not iterable">>)))
             ELSE IF PyIn(MessageKey, data) = "no"
             THEN Answer(ErrorResponse(400, "No message provided", <<>>))
             ELSE IF ~CanIndex(data)
             THEN Answer(HandleException(Raised("TypeError", <<"indices must be integers">>)))
             ELSE CallUpstream([url     |-> EXTERNAL_API_URL(cfg),
                                json    |-> [payload |-> PyGetItem(data, MessageKey),
                                             env     |-> cfg.ENVIRONMENT],
                                headers |-> [ContentType |-> "application/json",
                                             Apikey      |-> <<"Api-Key ", Rendered(cfg.API_KEY)>>],
                                timeout |-> UpstreamTimeout])

\* Lines 122-140: the response to an upstream response of status 200.
chat_success(resp) ==
    IF ~resp.json
    THEN \* response.json() raises ValueError: the raw body is returned
         TextResponse(200, resp.text)
    ELSE IF PyIn(TextKey, resp.data) = "TypeError"
    THEN HandleException(Raised("TypeError", <<"argument is not iterable">>))
    ELSE IF PyIn(TextKey, resp.data) = "no"
    THEN TextResponse(200, PyStr(resp.data))
    ELSE IF ~CanIndex(resp.data)
    THEN HandleException(Raised("TypeError", <<"indices must be integers">>))
    ELSE IF PyGetItem(resp.data, TextKey).t # "str"
    THEN \* re.sub raises TypeError on a value that is not a string
         HandleException(Raised("TypeError", <<"expected string or bytes-like object">>))
    ELSE TextResponse(200, format_text_response(PyGetItem(resp.data, TextKey).s))

\* chat_response answering every upstream error with status 500.
chat_response_status_500(resp) ==
    IF resp.status_code = 200
    THEN chat_success(resp)
    ELSE ErrorResponse(500, "External API error: ", IntStr(resp.status_code))

\* Lines 121-143: the response of chat to an upstream response.
chat_response(resp) ==
    IF resp.status_code = 200
    THEN chat_success(resp)
    ELSE ErrorResponse(resp.status_code, "External API error: ", IntStr(resp.status_code))

(***************************************************************************)
(* The requests, upstream responses and upstream failures of the model.    *)
(***************************************************************************)
Hi == <<"h", "i">>

RequestData ==
    { JObj(<<>>),
      JObj(<< <<MessageKey, JStr(Hi)>> >>),
      JObj(<< <<MessageKey, JStr(<<>>)>> >>),
      JObj(<< <<MessageKey, JNull>> >>),
      JObj(<< <<<<"u", "s", "e", "r">>, JStr(Hi)>> >>),
      JNull,
      JNum(0),
      JNum(5),
      JBool(TRUE),
      JStr(Hi),
      JStr(MessageKey),
      JList(<<>>),
      JList(<<JStr(Hi)>>),
      JList(<<JStr(MessageKey)>>) }

Requests == {[parsed |-> FALSE]} \cup {[parsed |-> TRUE, data |-> v] : v \in RequestData}

UpstreamTexts ==
    { <<>>,
      Hi,
      <<"*", "*", "H", "i", "*", "*", " ", "1", ".", " ", "A">>,
      <<"a", ":", "-", " ", "b">> }

UpstreamData ==
    {JObj(<< <<TextKey, JStr(s)>> >>) : s \in UpstreamTexts}
    \cup { JObj(<< <<TextKey, JNull>> >>),
           JObj(<< <<TextKey, JNum(7)>> >>),
           JObj(<<>>),
           JObj(<< <<<<"i", "d">>, JNum(-12)>>, <<<<"o", "k">>, JBool(TRUE)>> >>),
           JObj(<< <<<<"m", "s", "g">>, JStr(<<"i", "t", "'", "s", "\n">>)>> >>),
           JList(<<JStr(Hi), JNull>>),
           JList(<<JStr(TextKey)>>),
           JStr(Hi),
           JStr(<<"t", "e", "x", "t", "s">>),
           JNum(5),
           JNull,
           JBool(FALSE) }

UpstreamBodies ==
    {[json |-> FALSE, text |-> s] : s \in {<<>>, <<"O", "K">>, <<"<", "h", "1", ">">>}}
    \cup {[json |-> TRUE, data |-> v] : v \in UpstreamData}

StatusCodes == {200, 201, 204, 302, 400, 404, 500, 503}

UpstreamResponses ==
    {[status_code |-> c] @@ b : c \in StatusCodes, b \in UpstreamBodies}

\* what requests.post can raise
UpstreamFailures ==
    {Raised(cls, <<"upstream failure">>) :
        cls \in {"Timeout", "ReadTimeout", "ConnectTimeout", "ConnectionError", "SSLError",
                 "TooManyRedirects", "RequestException", "TypeError", "RuntimeError"}}

(***************************************************************************)
(* State.                                                                  *)
(***************************************************************************)
VARIABLES
    text,          \* the argument of format_text_response
    formatted,     \* format_text_response(text)
    reformatted,   \* format_text_response(formatted)
    fpc,           \* "input", "formatted" or "reformatted"
    deploy,        \* the configuration of each deployment
    config_reply,  \* the last response of GET /config of each deployment
    pc,            \* POST /chat: "idle", "awaiting" (upstream call in flight) or "responded"
    request,       \* the POST /chat request being handled, and the deployment handling it
    outbound,      \* the upstream calls made for the request, in order
    outcome,       \* what the upstream call of the request came to
    response       \* the response of POST /chat

formatVars == <<text, formatted, reformatted, fpc>>
configVars == <<deploy, config_reply>>
chatVars == <<pc, request, outbound, outcome, response>>
vars == <<text, formatted, reformatted, fpc, deploy, config_reply,
          pc, request, outbound, outcome, response>>

NoRequest == [parsed |-> FALSE, deployment |-> 0]
NoOutcome == [kind |-> "none"]

FormatIdle ==
    /\ text = <<>>
    /\ formatted = <<>>
    /\ reformatted = <<>>
    /\ fpc = "input"

ChatIdle ==
    /\ pc = "idle"
    /\ request = NoRequest
    /\ outbound = <<>>
    /\ outcome = NoOutcome
    /\ response = NoResponse

(***************************************************************************)
(* The formatter applied to an input, and applied again to its own output. *)
(***************************************************************************)
InitFormat ==
    /\ text \in Inputs
    /\ formatted = <<>>
    /\ reformatted = <<>>
    /\ fpc = "input"
    /\ deploy = [d \in Deployments |-> DefaultConfig]
    /\ config_reply = [d \in Deployments |-> NoResponse]
    /\ ChatIdle

Format ==
    /\ fpc = "input"
    /\ formatted' = format_text_response(text)
    /\ fpc' = "formatted"
    /\ UNCHANGED <<text, reformatted, configVars, chatVars>>

Reformat ==
    /\ fpc = "formatted"
    /\ reformatted' = format_text_response(formatted)
    /\ fpc' = "reformatted"
    /\ UNCHANGED <<text, formatted, configVars, chatVars>>

NextFormat == Format \/ Reformat

FormatSpec == InitFormat /\ [][NextFormat]_vars

(***************************************************************************)
(* GET /config on two deployments with independent configurations.         *)
(***************************************************************************)
InitConfig ==
    /\ deploy \in [Deployments -> Configs]
    /\ config_reply = [d \in Deployments |-> NoResponse]
    /\ FormatIdle
    /\ ChatIdle

GetConfig(d) ==
    /\ config_reply' = [config_reply EXCEPT ![d] = get_config(deploy[d])]
    /\ UNCHANGED <<deploy, formatVars, chatVars>>

NextConfig == \E d \in Deployments : GetConfig(d)

ConfigSpec == InitConfig /\ [][NextConfig]_vars

(***************************************************************************)
(* POST /chat: requests are handled one after the other, each by one of    *)
(* the deployments; the deployments are replicas with one configuration.   *)
(***************************************************************************)
Init ==
    /\ deploy \in {[d \in Deployments |-> c] : c \in Configs}
    /\ config_reply = [d \in Deployments |-> NoResponse]
    /\ FormatIdle
    /\ ChatIdle

\* A request arrives and is handled up to its upstream call.
ChatRequest(d, req) ==
    /\ pc \in {"idle", "responded"}
    /\ request' = req @@ [deployment |-> d]
    /\ outcome' = NoOutcome
    /\ LET step == chat_receive(deploy[d], req)
       IN  IF step.call
           THEN /\ outbound' = <<step.outbound>>
                /\ response' = NoResponse
                /\ pc' = "awaiting"
           ELSE /\ outbound' = <<>>
                /\ response' = step.response
                /\ pc' = "responded"
    /\ UNCHANGED <<formatVars, configVars>>

\* The upstream endpoint answers.
UpstreamResponds(resp) ==
    /\ pc = "awaiting"
    /\ outcome' = [kind |-> "response", response |-> resp]
    /\ response' = chat_response(resp)
    /\ pc' = "responded"
    /\ UNCHANGED <<request, outbound, formatVars, configVars>>

\* requests.post raises.
UpstreamFails(exc) ==
    /\ pc = "awaiting"
    /\ outcome' = [kind |-> "raised", exc |-> exc]
    /\ response' = HandleException(exc)
    /\ pc' = "responded"
    /\ UNCHANGED <<request, outbound, formatVars, configVars>>

Next ==
    \/ \E d \in Deployments, req \in Requests : ChatRequest(d, req)
    \/ \E resp \in UpstreamResponses : UpstreamResponds(resp)
    \/ \E exc \in UpstreamFailures : UpstreamFails(exc)

Spec == Init /\ [][Next]_vars

(***************************************************************************)
(* Properties of the formatter, checked under FormatSpec.                  *)
(***************************************************************************)
HasDigit(t) == \E i \in 1..Len(t) : t[i] \in Digits

HasSectionPhrase(t) == \E n \in 1..Len(SectionPhrases) : Contains(t, SectionPhrases[n])

\* No bold marker, no digit and no dash.
Plain(t) == /\ ~Contains(t, <<"*", "*">>)
            /\ ~HasDigit(t)
            /\ ~Contains(t, <<"-">>)

\* A numbered marker <n>.<whitespace> begins at position i of t.
MarkerStart(t, i) == MarkerEnd(t, i) > 0 /\ At(t, i - 1) \notin Digits

HasMarker(t) == \E i \in 1..Len(t) : MarkerStart(t, i)

\* A dash bullet (a dash, whitespace and an item) preceded by two spaces.
HasIndentedBullet(t) ==
    \E i \in 1..Len(t) : /\ HasAt(t, i, <<" ", " ", "-">>)
                         /\ At(t, i + 3) \in Whitespace
                         /\ At(t, i + 4) \notin Whitespace \cup {""}

\* A line of t begins with exactly three spaces and a dash.
HasSubBulletLine(t) ==
    \E j \in 1..Len(t) : /\ j = 1 \/ t[j - 1] = "\n"
                         /\ HasAt(t, j, <<" ", " ", " ", "-">>)

NoEdgeWhitespace(t) == t = <<>> \/ (t[1] \notin Whitespace /\ t[Len(t)] \notin Whitespace)

\* C6, as stated: for every input with no bold markers, no digits and no
\* dashes, the formatter returns the input with runs of three or more newlines
\* collapsed to two and leading and trailing whitespace trimmed.
PlainInputOnlyTrimmed ==
    (fpc = "formatted" /\ Plain(text)) => formatted = Strip(CollapseNewlines(text))

\* C6, amended: for every input with no bold markers, no digits, no dashes and
\* none of the six section phrases of rule 8, the formatter returns the input
\* with runs of three or more newlines collapsed to two and leading and
\* trailing whitespace trimmed.
PlainInputWithoutSectionOnlyTrimmed ==
    (fpc = "formatted" /\ Plain(text) /\ ~HasSectionPhrase(text))
        => formatted = Strip(CollapseNewlines(text))

\* C6 witness: such an input in which a run of three newlines was collapsed.
PlainInputCollapsed ==
    /\ fpc = "formatted"
    /\ Plain(text) /\ ~HasSectionPhrase(text)
    /\ Contains(text, <<"a", "\n", "\n", "\n", "A">>)
    /\ formatted = <<"a", "\n", "\n", "A">>

\* C7: for an input in which a dash bullet is preceded by two or more spaces,
\* the output has a line that begins with exactly three spaces and a dash.
SubBulletStaysIndented ==
    (fpc = "formatted" /\ HasIndentedBullet(text)) => HasSubBulletLine(formatted)

\* C8: for every input that contains a numbered marker, every numbered marker
\* of the output is immediately preceded by two newlines.
BlankLineBeforeEveryMarker ==
    (fpc = "formatted" /\ HasMarker(text))
        => \A i \in 1..Len(formatted) :
              MarkerStart(formatted, i)
                  => i >= 3 /\ formatted[i - 1] = "\n" /\ formatted[i - 2] = "\n"

\* C9: the formatter is not idempotent: for every input in which a colon is
\* immediately followed by a dash, formatting the output again changes it.
ColonDashNotIdempotent ==
    (fpc = "reformatted" /\ Contains(text, <<":", "-">>)) => reformatted # formatted

\* C9 witness: the input ":-", whose output gains a newline on each of the
\* first two applications.
ColonDashDrifts ==
    /\ fpc = "reformatted"
    /\ text = <<":", "-">>
    /\ formatted = <<":", "\n", "-">>
    /\ reformatted = <<":", "\n", "\n", "-">>

\* C10: the output has no run of three or more newlines and no leading or
\* trailing whitespace.
OutputCollapsedAndTrimmed ==
    fpc # "input"
        => /\ ~Contains(formatted, <<"\n", "\n", "\n">>)
           /\ NoEdgeWhitespace(formatted)
           /\ fpc = "reformatted"
                  => /\ ~Contains(reformatted, <<"\n", "\n", "\n">>)
                     /\ NoEdgeWhitespace(reformatted)

\* C10 witness: rule 10 collapsed newlines, rule 11 trimmed, and rule 12 then
\* inserted a newline.
NewlineInsertedAfterCollapse ==
    /\ fpc = "formatted"
    /\ Pipeline(text)[10] # Pipeline(text)[9]
    /\ Pipeline(text)[11] # Pipeline(text)[10]
    /\ Pipeline(text)[12] # Pipeline(text)[11]

(***************************************************************************)
(* Properties of POST /chat, checked under Spec.                           *)
(***************************************************************************)
\* The body of the request is a JSON object with a `message` member.
HasMessageField(req) ==
    /\ req.parsed
    /\ req.data.t = "obj"
    /\ PyIn(MessageKey, req.data) = "yes"

HasTextField(v) == v.t = "obj" /\ PyIn(TextKey, v) = "yes"

UpstreamAnswered == pc = "responded" /\ outcome.kind = "response"
UpstreamRaised == pc = "responded" /\ outcome.kind = "raised"

\* C1: a request whose body has no `message` field is answered with status
\* 400 and the error payload that names the missing message, and no upstream
\* call is made for it.
MissingMessageRejected ==
    (pc = "responded" /\ ~HasMessageField(request))
        => /\ response = ErrorResponse(400, "No message provided", <<>>)
           /\ outbound = <<>>

\* C2: an upstream response with a 2xx status is answered with status 200 and
\* a success body: the formatter's output when the body is JSON with a `text`
\* field, the stringified value when it is JSON without one, the raw body
\* when it is not JSON; never with an error payload.
SuccessRelayed ==
    (UpstreamAnswered /\ outcome.response.status_code \in 200..299)
        => LET up == outcome.response
           IN  /\ response.status = 200
               /\ response.kind = "text"
               /\ ~up.json => response.body = up.text
               /\ (up.json /\ ~HasTextField(up.data)) => response.body = PyStr(up.data)
               /\ (up.json /\ HasTextField(up.data)
                           /\ PyGetItem(up.data, TextKey).t = "str")
                      => response.body = format_text_response(PyGetItem(up.data, TextKey).s)

\* C3: an upstream response with a status that is not 2xx is answered with
\* that same status and the error payload that names it, not with a formatted
\* text.
UpstreamErrorPropagated ==
    (UpstreamAnswered /\ outcome.response.status_code \notin 200..299)
        => response = ErrorResponse(outcome.response.status_code,
                                    "External API error: ",
                                    IntStr(outcome.response.status_code))

\* C3 witness: an upstream 503 that carried a `text` field was answered 503.
UpstreamUnavailableRelayed ==
    /\ UpstreamAnswered
    /\ outcome.response.status_code = 503
    /\ outcome.response.json /\ HasTextField(outcome.response.data)
    /\ response.status = 503
    /\ response.error = <<"External API error: ", <<"5", "0", "3">> >>

\* C4: a failure of the upstream call is answered with exactly one error
\* response and does not leave the handler: 408 for a timeout (a timeout while
\* connecting included), 503 for a connection failure, 500 for any other
\* failure; the upstream call is made once.
FailureClassified ==
    UpstreamRaised
        => /\ response.kind = "error"
           /\ response.status =
                 IF outcome.exc.cls \in {"Timeout", "ReadTimeout", "ConnectTimeout"} THEN 408
                 ELSE IF outcome.exc.cls \in {"ConnectionError", "SSLError"} THEN 503
                 ELSE 500
           /\ Len(outbound) = 1

\* C4 witness: a timeout while connecting was answered 408.
ConnectTimeoutAnswered ==
    /\ UpstreamRaised
    /\ outcome.exc.cls = "ConnectTimeout"
    /\ response.status = 408
    /\ Len(outbound) = 1

(***************************************************************************)
(* Property of GET /config, checked under ConfigSpec.                      *)
(***************************************************************************)
BothConfigured(cfg) == Configured(cfg.API_KEY) /\ Configured(cfg.CHANNEL_TOKEN)

\* C5: two production deployments that agree on whether both secrets are
\* configured give the same /config response.
ProductionConfigHidesSecrets ==
    \A d1, d2 \in Deployments :
        ( /\ config_reply[d1] # NoResponse
          /\ config_reply[d2] # NoResponse
          /\ deploy[d1].ENVIRONMENT = "production"
          /\ deploy[d2].ENVIRONMENT = "production"
          /\ BothConfigured(deploy[d1]) <=> BothConfigured(deploy[d2]) )
            => config_reply[d1] = config_reply[d2]

\* C5 witness: two production deployments with different keys and different
\* tokens have both answered.
DistinctSecretsSameReply ==
    /\ deploy[1].ENVIRONMENT = "production"
    /\ deploy[2].ENVIRONMENT = "production"
    /\ BothConfigured(deploy[1]) /\ BothConfigured(deploy[2])
    /\ deploy[1].API_KEY # deploy[2].API_KEY
    /\ deploy[1].CHANNEL_TOKEN # deploy[2].CHANNEL_TOKEN
    /\ config_reply[1] # NoResponse
    /\ config_reply[1] = config_reply[2]

====
